---- MODULE Spec2Model ----
(***************************************************************************)
(* Model of chops::mutable_shared_buffer and chops::const_shared_buffer    *)
(* (include/buffer/shared_buffer.hpp).                                     *)
(*                                                                         *)
(* Every buffer object holds one field, std::shared_ptr<byte_vec> m_data.  *)
(* The heap of byte_vec blocks is `store`, the shared_ptr control block's  *)
(* reference count is `use_count`, and the m_data field of the mutable and *)
(* of the const objects are `m_data` and `c_data`.                         *)
(***************************************************************************)
EXTENDS Integers, Sequences, FiniteSets, TLC

\* ---- bounds -------------------------------------------------------------
NumMut    == 2      \* mutable_shared_buffer objects the program declares
NumConst  == 2      \* const_shared_buffer objects the program declares
NumAlias  == 3      \* mutable objects of the program that has no const ones
NumTest   == 2      \* mutable objects of the append test
MaxBlocks == 2      \* byte_vec blocks that can be allocated at one time
MaxLen    == 3      \* longest byte_vec
MaxByte   == 1      \* largest std::byte value
MaxAt     == 1      \* largest offset of the cursor of the codec test

Blocks   == 1..MaxBlocks
Bytes    == 0..MaxByte

\* ---- values of an m_data field -------------------------------------------
Dead == -1          \* the object is not (or no longer) constructed
Null == 0           \* an empty std::shared_ptr (get() == nullptr)

RECURSIVE SeqsOfLen(_)
SeqsOfLen(n) ==
  IF n = 0 THEN {<<>>}
  ELSE {Append(s, b) : s \in SeqsOfLen(n - 1), b \in Bytes}

ByteSeqs == UNION {SeqsOfLen(n) : n \in 0..MaxLen}

Zeros(n) == [i \in 1..n |-> 0]

\* m_data    : the m_data field of each mutable_shared_buffer object
\* c_data    : the m_data field of each const_shared_buffer object
\* store     : the byte_vec held by each block
\* use_count : the number of shared_ptr owners of each block (0: not allocated)
\* crashed   : an empty shared_ptr was dereferenced and the process stopped
\* last      : the call made last
\* pc, inp   : the statement and the input arrays of a test program
\* result    : the values the calls of a test program returned, in order
\* bv        : the std::vector<std::byte> a test program owns
\* cursor    : the pointer x of a test program, as an offset from data()
VARIABLES m_data, c_data, store, use_count, crashed, last, pc, inp,
          result, bv, cursor

vars == <<m_data, c_data, store, use_count, crashed, last, pc, inp,
          result, bv, cursor>>

\* the objects of the program
MutIds   == DOMAIN m_data
ConstIds == DOMAIN c_data

\* the call that was made last: its name, the object it was made on (obj),
\* its buffer or size argument (arg), its byte argument (bytes), the object
\* whose reference it returned (ret)
Call(op, obj, arg, bytes, ret) ==
  [op |-> op, obj |-> obj, arg |-> arg, bytes |-> bytes, ret |-> ret]

NoObj == 0

\* pc is the statement a test program is at; a program that makes its calls
\* in any order stays at Free. inp holds the test's input arrays.
Free == 0

\* a call was made: it is recorded and the program moves to its next statement
Made(op, obj, arg, bytes, ret) ==
  /\ last' = Call(op, obj, arg, bytes, ret)
  /\ pc' = IF pc = Free THEN Free ELSE pc + 1
  /\ inp' = inp

\* a call of a buffer's constructor, destructor or modifier was made: the
\* program's own variables stay as they are
Did(op, obj, arg, bytes, ret) ==
  /\ Made(op, obj, arg, bytes, ret)
  /\ UNCHANGED <<result, bv, cursor>>

\* a program that makes its calls in any order lets no byte_vec grow beyond
\* MaxLen
Bounded(n) == pc = Free => n <= MaxLen

\* ---- std::shared_ptr / std::make_shared -----------------------------------
HasFree == {b \in Blocks : use_count[b] = 0} # {}

\* the block std::make_shared returns: one that is not allocated
Fresh == CHOOSE b \in Blocks :
           /\ use_count[b] = 0
           /\ \A c \in Blocks : use_count[c] = 0 => b <= c

\* shared_ptr copy: one more owner
Acquire(uc, h) == IF h \in Blocks THEN [uc EXCEPT ![h] = @ + 1] ELSE uc

\* a shared_ptr that gives up its block and leaves the count as it is
Release_never(uc, h) == uc

\* shared_ptr destruction or reset: one owner fewer
Release(uc, h) == IF h \in Blocks THEN [uc EXCEPT ![h] = @ - 1] ELSE uc

\* the byte_vec of a block is destroyed when its last owner is gone
Reclaim(st, uc) == [b \in Blocks |-> IF uc[b] = 0 THEN <<>> ELSE st[b]]

\* ---- observers ------------------------------------------------------------
Live(h) == h # Dead

\* size() : m_data->size()
size(h) == Len(store[h])

\* empty() : m_data->empty()
empty(h) == store[h] = <<>>

\* operator==(const mutable_shared_buffer& rhs) : *m_data == *rhs.m_data
buf_eq(h, rhs) == store[h] = store[rhs]

Init ==
  /\ m_data = [m \in 1..NumMut |-> Dead]
  /\ c_data = [c \in 1..NumConst |-> Dead]
  /\ store = [b \in Blocks |-> <<>>]
  /\ use_count = [b \in Blocks |-> 0]
  /\ crashed = FALSE
  /\ last = Call("none", NoObj, NoObj, <<>>, NoObj)
  /\ pc = Free
  /\ inp = <<>>
  /\ result = <<>>
  /\ bv = <<>>
  /\ cursor = 0

\* dereferencing an empty shared_ptr: the process stops
NullDeref(op, obj, arg) ==
  /\ crashed' = TRUE
  /\ Did(op, obj, arg, <<>>, NoObj)
  /\ UNCHANGED <<m_data, c_data, store, use_count>>

\* ---- mutable_shared_buffer constructors ------------------------------------
\* mutable_shared_buffer() : make_shared<byte_vec>(0)
MDefaultCtor(m) ==
  /\ ~crashed /\ m_data[m] = Dead /\ HasFree
  /\ m_data' = [m_data EXCEPT ![m] = Fresh]
  /\ store' = [store EXCEPT ![Fresh] = <<>>]
  /\ use_count' = [use_count EXCEPT ![Fresh] = 1]
  /\ Did("m_default", m, NoObj, <<>>, NoObj)
  /\ UNCHANGED <<c_data, crashed>>

\* a constructor that makes a byte_vec of the size of the source and copies
\* nothing into it
MCtorBytes_sized(m, s) ==
  /\ ~crashed /\ m_data[m] = Dead /\ HasFree
  /\ m_data' = [m_data EXCEPT ![m] = Fresh]
  /\ store' = [store EXCEPT ![Fresh] = Zeros(Len(s))]
  /\ use_count' = [use_count EXCEPT ![Fresh] = 1]
  /\ Did("m_bytes", m, NoObj, s, NoObj)
  /\ UNCHANGED <<c_data, crashed>>

\* mutable_shared_buffer(span) / (buf, sz) / (beg, end) : make_shared<byte_vec>
\* holding a copy of the bytes
MCtorBytes(m, s) ==
  /\ ~crashed /\ m_data[m] = Dead /\ HasFree
  /\ m_data' = [m_data EXCEPT ![m] = Fresh]
  /\ store' = [store EXCEPT ![Fresh] = s]
  /\ use_count' = [use_count EXCEPT ![Fresh] = 1]
  /\ Did("m_bytes", m, NoObj, s, NoObj)
  /\ UNCHANGED <<c_data, crashed>>

\* mutable_shared_buffer(size_type sz) : make_shared<byte_vec>(sz)
MCtorSized(m, n) ==
  /\ ~crashed /\ m_data[m] = Dead /\ HasFree
  /\ m_data' = [m_data EXCEPT ![m] = Fresh]
  /\ store' = [store EXCEPT ![Fresh] = Zeros(n)]
  /\ use_count' = [use_count EXCEPT ![Fresh] = 1]
  /\ Did("m_sized", m, n, <<>>, NoObj)
  /\ UNCHANGED <<c_data, crashed>>

\* mutable_shared_buffer(const mutable_shared_buffer&) = default :
\* the shared_ptr is copied, whatever it holds
MCopyCtor(m, rhs) ==
  /\ ~crashed /\ m_data[m] = Dead /\ Live(m_data[rhs])
  /\ m_data' = [m_data EXCEPT ![m] = m_data[rhs]]
  /\ use_count' = Acquire(use_count, m_data[rhs])
  /\ Did("m_copy", m, rhs, <<>>, NoObj)
  /\ UNCHANGED <<c_data, store, crashed>>

\* mutable_shared_buffer(mutable_shared_buffer&&) = default :
\* the shared_ptr is moved, which leaves the source's shared_ptr empty
MMoveCtor(m, rhs) ==
  /\ ~crashed /\ m_data[m] = Dead /\ Live(m_data[rhs])
  /\ m_data' = [m_data EXCEPT ![m] = m_data[rhs], ![rhs] = Null]
  /\ Did("m_move", m, rhs, <<>>, NoObj)
  /\ UNCHANGED <<c_data, store, use_count, crashed>>

\* operator=(const mutable_shared_buffer&) = default
MCopyAssign(m, rhs) ==
  /\ ~crashed /\ Live(m_data[m]) /\ Live(m_data[rhs])
  /\ m_data' = [m_data EXCEPT ![m] = m_data[rhs]]
  /\ use_count' = Release(Acquire(use_count, m_data[rhs]), m_data[m])
  /\ store' = Reclaim(store, use_count')
  /\ Did("m_copy_assign", m, rhs, <<>>, m)
  /\ UNCHANGED <<c_data, crashed>>

\* operator=(mutable_shared_buffer&&) = default :
\* shared_ptr(std::move(rhs.m_data)).swap(m_data)
MMoveAssign(m, rhs) ==
  /\ ~crashed /\ Live(m_data[m]) /\ Live(m_data[rhs])
  /\ m_data' = IF m = rhs THEN m_data
               ELSE [m_data EXCEPT ![m] = m_data[rhs], ![rhs] = Null]
  /\ use_count' = IF m = rhs THEN use_count ELSE Release(use_count, m_data[m])
  /\ store' = Reclaim(store, use_count')
  /\ Did("m_move_assign", m, rhs, <<>>, m)
  /\ UNCHANGED <<c_data, crashed>>

\* ~mutable_shared_buffer() : the shared_ptr gives up its block
MDtor(m) ==
  /\ ~crashed /\ Live(m_data[m])
  /\ m_data' = [m_data EXCEPT ![m] = Dead]
  /\ use_count' = Release(use_count, m_data[m])
  /\ store' = Reclaim(store, use_count')
  /\ Did("m_dtor", m, NoObj, <<>>, NoObj)
  /\ UNCHANGED <<c_data, crashed>>

\* ---- std::vector<std::byte> ------------------------------------------------
\* a resize that value-initialises the whole byte_vec
vec_resize_fresh(v, n) == Zeros(n)

\* byte_vec::resize(n) : cut, or extend with value-initialised bytes
vec_resize(v, n) ==
  IF n <= Len(v) THEN SubSeq(v, 1, n) ELSE v \o Zeros(n - Len(v))

\* std::copy that writes the source back to front
std_copy_backwards(v, x, off) ==
  [i \in 1..Len(v) |->
     IF i > off /\ i <= off + Len(x) THEN x[Len(x) + 1 - (i - off)] ELSE v[i]]

\* std::copy(buf, buf + sz, v.data() + off)
std_copy(v, x, off) ==
  [i \in 1..Len(v) |->
     IF i > off /\ i <= off + Len(x) THEN x[i - off] ELSE v[i]]

\* an append that copies to data() instead of data() + old_sz
vec_append_front(v, x) == std_copy(vec_resize(v, Len(v) + Len(x)), x, 0)

\* the body of append(const std::byte* buf, std::size_t sz) on the byte_vec
vec_append(v, x) == std_copy(vec_resize(v, Len(v) + Len(x)), x, Len(v))

\* ---- mutable_shared_buffer modifiers ---------------------------------------
\* a clear that gives the buffer a new empty byte_vec
clear_fresh(m) ==
  /\ ~crashed /\ Live(m_data[m])
  /\ IF m_data[m] = Null THEN NullDeref("clear", m, NoObj)
     ELSE /\ HasFree
          /\ m_data' = [m_data EXCEPT ![m] = Fresh]
          /\ use_count' = [Release(use_count, m_data[m]) EXCEPT ![Fresh] = 1]
          /\ store' = [Reclaim(store, use_count') EXCEPT ![Fresh] = <<>>]
          /\ Did("clear", m, NoObj, <<>>, NoObj)
          /\ UNCHANGED <<c_data, crashed>>

\* clear() : m_data->clear()
clear(m) ==
  /\ ~crashed /\ Live(m_data[m])
  /\ IF m_data[m] = Null THEN NullDeref("clear", m, NoObj)
     ELSE /\ store' = [store EXCEPT ![m_data[m]] = <<>>]
          /\ Did("clear", m, NoObj, <<>>, NoObj)
          /\ UNCHANGED <<m_data, c_data, use_count, crashed>>

\* resize(sz) : m_data->resize(sz)
resize(m, n) ==
  /\ ~crashed /\ Live(m_data[m])
  /\ IF m_data[m] = Null THEN NullDeref("resize", m, NoObj)
     ELSE /\ store' = [store EXCEPT ![m_data[m]] = vec_resize(@, n)]
          /\ Did("resize", m, n, <<>>, NoObj)
          /\ UNCHANGED <<m_data, c_data, use_count, crashed>>

\* *(data() + i - 1) = b, or get_byte_vec()[i - 1] = b
write(m, i, b) ==
  /\ ~crashed /\ Live(m_data[m])
  /\ IF m_data[m] = Null THEN NullDeref("write", m, NoObj)
     ELSE /\ i <= size(m_data[m])
          /\ store' = [store EXCEPT ![m_data[m]][i] = b]
          /\ Did("write", m, NoObj, <<b>>, NoObj)
          /\ UNCHANGED <<m_data, c_data, use_count, crashed>>

\* append(const std::byte* buf, std::size_t sz), and the span, T* and void*
\* overloads that forward to it; x is the caller's array
append(m, x) ==
  /\ ~crashed /\ Live(m_data[m])
  /\ IF m_data[m] = Null THEN NullDeref("append", m, NoObj)
     ELSE /\ Bounded(size(m_data[m]) + Len(x))
          /\ store' = [store EXCEPT ![m_data[m]] = vec_append(@, x)]
          /\ Did("append", m, NoObj, x, m)
          /\ UNCHANGED <<m_data, c_data, use_count, crashed>>

\* an append of one byte that writes it over the last byte
append_byte_over(m, b) ==
  /\ ~crashed /\ Live(m_data[m])
  /\ IF m_data[m] = Null THEN NullDeref("append_byte", m, NoObj)
     ELSE /\ Bounded(size(m_data[m]) + 1)
          /\ store' = [store EXCEPT ![m_data[m]] =
                         IF @ = <<>> THEN <<b>> ELSE [@ EXCEPT ![Len(@)] = b]]
          /\ Did("append_byte", m, NoObj, <<b>>, m)
          /\ UNCHANGED <<m_data, c_data, use_count, crashed>>

\* append(std::byte b) : append(&b, 1)
append_byte(m, b) ==
  /\ ~crashed /\ Live(m_data[m])
  /\ IF m_data[m] = Null THEN NullDeref("append_byte", m, NoObj)
     ELSE /\ Bounded(size(m_data[m]) + 1)
          /\ store' = [store EXCEPT ![m_data[m]] = vec_append(@, <<b>>)]
          /\ Did("append_byte", m, NoObj, <<b>>, m)
          /\ UNCHANGED <<m_data, c_data, use_count, crashed>>

\* append(const mutable_shared_buffer& rhs) : append(rhs.data(), rhs.size()).
\* When rhs shares the target's block and the resize reallocates it, buf
\* dangles and std::copy reads freed memory: any bytes may arrive.
append_buffer(m, rhs) ==
  /\ ~crashed /\ Live(m_data[m]) /\ Live(m_data[rhs])
  /\ IF m_data[m] = Null \/ m_data[rhs] = Null
     THEN NullDeref("append_buffer", m, rhs)
     ELSE /\ Bounded(size(m_data[m]) + size(m_data[rhs]))
          /\ \E realloc \in BOOLEAN, x \in SeqsOfLen(size(m_data[rhs])) :
               /\ realloc =>
                    /\ m_data[m] = m_data[rhs]
                    /\ size(m_data[rhs]) > 0
               /\ ~realloc => x = store[m_data[rhs]]
               /\ store' = [store EXCEPT ![m_data[m]] = vec_append(@, x)]
               /\ Did(IF realloc THEN "append_buffer_stale"
                                          ELSE "append_buffer",
                               m, rhs, x, m)
          /\ UNCHANGED <<m_data, c_data, use_count, crashed>>

\* a swap that assigns one side only
swap_handles_onesided(h, a, b) == [h EXCEPT ![a] = h[b]]

\* the handles after swap(m_data, rhs.m_data)
swap_handles(h, a, b) == [h EXCEPT ![a] = h[b], ![b] = h[a]]

\* a swap that exchanges the bytes of the two blocks and keeps the handles
swap_bytes(m, rhs) ==
  /\ ~crashed /\ Live(m_data[m]) /\ Live(m_data[rhs])
  /\ IF m_data[m] \in Blocks /\ m_data[rhs] \in Blocks
     THEN /\ store' = [store EXCEPT ![m_data[m]] = store[m_data[rhs]],
                                    ![m_data[rhs]] = store[m_data[m]]]
          /\ UNCHANGED m_data
     ELSE /\ m_data' = swap_handles(m_data, m, rhs)
          /\ UNCHANGED store
  /\ Did("swap", m, rhs, <<>>, NoObj)
  /\ UNCHANGED <<c_data, use_count, crashed>>

\* swap(mutable_shared_buffer& rhs), and the free function swap(lhs, rhs)
swap(m, rhs) ==
  /\ ~crashed /\ Live(m_data[m]) /\ Live(m_data[rhs])
  /\ m_data' = swap_handles(m_data, m, rhs)
  /\ Did("swap", m, rhs, <<>>, NoObj)
  /\ UNCHANGED <<c_data, store, use_count, crashed>>

\* ---- const_shared_buffer ---------------------------------------------------
\* const_shared_buffer(span) / (buf, sz) / (beg, end) : make_shared<byte_vec>
\* holding a copy of the bytes
CCtorBytes(c, s) ==
  /\ ~crashed /\ c_data[c] = Dead /\ HasFree
  /\ c_data' = [c_data EXCEPT ![c] = Fresh]
  /\ store' = [store EXCEPT ![Fresh] = s]
  /\ use_count' = [use_count EXCEPT ![Fresh] = 1]
  /\ Did("c_bytes", c, NoObj, s, NoObj)
  /\ UNCHANGED <<m_data, crashed>>

\* const_shared_buffer(const const_shared_buffer&) = default
CCopyCtor(c, rhs) ==
  /\ ~crashed /\ c_data[c] = Dead /\ Live(c_data[rhs])
  /\ c_data' = [c_data EXCEPT ![c] = c_data[rhs]]
  /\ use_count' = Acquire(use_count, c_data[rhs])
  /\ Did("c_copy", c, rhs, <<>>, NoObj)
  /\ UNCHANGED <<m_data, store, crashed>>

\* const_shared_buffer(const_shared_buffer&&) = default :
\* the shared_ptr is moved, which leaves the source's shared_ptr empty
CMoveCtor(c, rhs) ==
  /\ ~crashed /\ c_data[c] = Dead /\ Live(c_data[rhs])
  /\ c_data' = [c_data EXCEPT ![c] = c_data[rhs], ![rhs] = Null]
  /\ Did("c_move", c, rhs, <<>>, NoObj)
  /\ UNCHANGED <<m_data, store, use_count, crashed>>

\* a copy from a mutable buffer that takes a share of its block
CCopyFromMutable_shares(c, rhs) ==
  /\ ~crashed /\ c_data[c] = Dead /\ Live(m_data[rhs])
  /\ IF m_data[rhs] = Null THEN NullDeref("c_from_mutable", c, rhs)
     ELSE /\ c_data' = [c_data EXCEPT ![c] = m_data[rhs]]
          /\ use_count' = Acquire(use_count, m_data[rhs])
          /\ Did("c_from_mutable", c, rhs, <<>>, NoObj)
          /\ UNCHANGED <<m_data, store, crashed>>

\* const_shared_buffer(const mutable_shared_buffer& rhs) :
\* const_shared_buffer(rhs.data(), rhs.size())
CCopyFromMutable(c, rhs) ==
  /\ ~crashed /\ c_data[c] = Dead /\ Live(m_data[rhs])
  /\ IF m_data[rhs] = Null THEN NullDeref("c_from_mutable", c, rhs)
     ELSE /\ HasFree
          /\ c_data' = [c_data EXCEPT ![c] = Fresh]
          /\ store' = [store EXCEPT ![Fresh] = store[m_data[rhs]]]
          /\ use_count' = [use_count EXCEPT ![Fresh] = 1]
          /\ Did("c_from_mutable", c, rhs, <<>>, NoObj)
          /\ UNCHANGED <<m_data, crashed>>

\* an adoption that copies the bytes into a new block for the const buffer
\* and clears the block of the source
CAdopt_copies(c, rhs) ==
  /\ ~crashed /\ c_data[c] = Dead /\ m_data[rhs] \in Blocks /\ HasFree
  /\ c_data' = [c_data EXCEPT ![c] = Fresh]
  /\ store' = [store EXCEPT ![Fresh] = store[m_data[rhs]],
                            ![m_data[rhs]] = <<>>]
  /\ use_count' = [use_count EXCEPT ![Fresh] = 1]
  /\ Did("c_adopt", c, rhs, <<>>, NoObj)
  /\ UNCHANGED <<m_data, crashed>>

\* an adoption that leaves the source its handle
CAdopt_keeps_source(c, rhs) ==
  /\ ~crashed /\ c_data[c] = Dead /\ Live(m_data[rhs]) /\ HasFree
  /\ c_data' = [c_data EXCEPT ![c] = m_data[rhs]]
  /\ use_count' = Acquire(use_count, m_data[rhs])
  /\ Did("c_adopt", c, rhs, <<>>, NoObj)
  /\ UNCHANGED <<m_data, store, crashed>>

\* const_shared_buffer(mutable_shared_buffer&& rhs) :
\* m_data(std::move(rhs.m_data)), then rhs.m_data = make_shared<byte_vec>(0)
CAdopt(c, rhs) ==
  /\ ~crashed /\ c_data[c] = Dead /\ Live(m_data[rhs]) /\ HasFree
  /\ c_data' = [c_data EXCEPT ![c] = m_data[rhs]]
  /\ m_data' = [m_data EXCEPT ![rhs] = Fresh]
  /\ store' = [store EXCEPT ![Fresh] = <<>>]
  /\ use_count' = [use_count EXCEPT ![Fresh] = 1]
  /\ Did("c_adopt", c, rhs, <<>>, NoObj)
  /\ UNCHANGED crashed

\* ~const_shared_buffer()
CDtor(c) ==
  /\ ~crashed /\ Live(c_data[c])
  /\ c_data' = [c_data EXCEPT ![c] = Dead]
  /\ use_count' = Release(use_count, c_data[c])
  /\ store' = Reclaim(store, use_count')
  /\ Did("c_dtor", c, NoObj, <<>>, NoObj)
  /\ UNCHANGED <<m_data, crashed>>

\* the calls on mutable_shared_buffer objects
NextMut ==
  \/ \E m \in MutIds : MDefaultCtor(m)
  \/ \E m \in MutIds, s \in ByteSeqs : MCtorBytes(m, s)
  \/ \E m \in MutIds, n \in 0..MaxLen : MCtorSized(m, n)
  \/ \E m, rhs \in MutIds : MCopyCtor(m, rhs)
  \/ \E m, rhs \in MutIds : MMoveCtor(m, rhs)
  \/ \E m, rhs \in MutIds : MCopyAssign(m, rhs)
  \/ \E m, rhs \in MutIds : MMoveAssign(m, rhs)
  \/ \E m \in MutIds : MDtor(m)
  \/ \E m \in MutIds : clear(m)
  \/ \E m \in MutIds, n \in 0..MaxLen : resize(m, n)
  \/ \E m \in MutIds, i \in 1..MaxLen, b \in Bytes : write(m, i, b)
  \/ \E m \in MutIds, x \in ByteSeqs : append(m, x)
  \/ \E m \in MutIds, b \in Bytes : append_byte(m, b)
  \/ \E m, rhs \in MutIds : append_buffer(m, rhs)
  \/ \E m, rhs \in MutIds : swap(m, rhs)

\* the calls on const_shared_buffer objects
NextConst ==
  \/ \E c \in ConstIds, s \in ByteSeqs : CCtorBytes(c, s)
  \/ \E c, rhs \in ConstIds : CCopyCtor(c, rhs)
  \/ \E c, rhs \in ConstIds : CMoveCtor(c, rhs)
  \/ \E c \in ConstIds, rhs \in MutIds : CCopyFromMutable(c, rhs)
  \/ \E c \in ConstIds, rhs \in MutIds : CAdopt(c, rhs)
  \/ \E c \in ConstIds : CDtor(c)

Next == NextMut \/ NextConst

Spec == Init /\ [][Next]_vars

\* a program that declares mutable buffers only
InitAlias ==
  /\ m_data = [m \in 1..NumAlias |-> Dead]
  /\ c_data = <<>>
  /\ store = [b \in Blocks |-> <<>>]
  /\ use_count = [b \in Blocks |-> 0]
  /\ crashed = FALSE
  /\ last = Call("none", NoObj, NoObj, <<>>, NoObj)
  /\ pc = Free
  /\ inp = <<>>
  /\ result = <<>>
  /\ bv = <<>>
  /\ cursor = 0

SpecAlias == InitAlias /\ [][NextMut]_vars

\* ---- the append test: "Call append twice" and "Append with single byte" -----
\* sb is object 1, the buffer it is compared with is object 2; the test's
\* arrays are inp.X and inp.Y
InitAppend ==
  /\ m_data = [m \in 1..NumTest |-> Dead]
  /\ c_data = <<>>
  /\ store = [b \in Blocks |-> <<>>]
  /\ use_count = [b \in Blocks |-> 0]
  /\ crashed = FALSE
  /\ last = Call("none", NoObj, NoObj, <<>>, NoObj)
  /\ pc = 1
  /\ inp \in {r \in [kind : {"twice"}, X : ByteSeqs, Y : ByteSeqs] :
                 Len(r.X) + Len(r.Y) <= MaxLen}
             \cup [kind : {"bytes"}, X : ByteSeqs, Y : {<<>>}]
  /\ result = <<>>
  /\ bv = <<>>
  /\ cursor = 0

\* the statement that constructs the buffer to compare with
DirectPc == IF inp.kind = "twice" THEN 4 ELSE Len(inp.X) + 2

\* the test has made all its calls
TestDone == pc = DirectPc + 1

\* chops::mutable_shared_buffer sb;
TestCtor == pc = 1 /\ MDefaultCtor(1)

\* sb.append(X);
TestAppendX == inp.kind = "twice" /\ pc = 2 /\ append(1, inp.X)

\* sb.append(Y);
TestAppendY == inp.kind = "twice" /\ pc = 3 /\ append(1, inp.Y)

\* sb.append(std::byte(..)); once for each byte of X
TestAppendByte ==
  /\ inp.kind = "bytes" /\ pc \in 2..(Len(inp.X) + 1)
  /\ append_byte(1, inp.X[pc - 1])

\* chops::mutable_shared_buffer ta(arr.cbegin(), arr.cend());
TestDirect == pc = DirectPc /\ MCtorBytes(2, inp.X \o inp.Y)

NextAppend ==
  \/ TestCtor
  \/ TestAppendX
  \/ TestAppendY
  \/ TestAppendByte
  \/ TestDirect

SpecAppend == InitAppend /\ [][NextAppend]_vars

\* ---- comparisons -------------------------------------------------------------
\* a call returned the value v to the program
Returned(op, obj, arg, v) ==
  /\ Made(op, obj, arg, <<>>, NoObj)
  /\ result' = Append(result, v)
  /\ UNCHANGED <<m_data, c_data, store, use_count, crashed, bv, cursor>>

\* an equality that stops at the end of the shorter byte_vec
vec_eq_prefix(a, b) ==
  \A i \in 1..(IF Len(a) < Len(b) THEN Len(a) ELSE Len(b)) : a[i] = b[i]

\* std::vector operator== : equal sizes, and std::equal over the elements
vec_eq(a, b) ==
  /\ Len(a) = Len(b)
  /\ \A i \in 1..Len(a) : a[i] = b[i]

\* std::lexicographical_compare_three_way, from element i on
RECURSIVE cmp_from(_, _, _)
cmp_from(a, b, i) ==
  IF i > Len(a) THEN (IF i > Len(b) THEN "equal" ELSE "less")
  ELSE IF i > Len(b) THEN "greater"
  ELSE IF a[i] < b[i] THEN "less"
  ELSE IF a[i] > b[i] THEN "greater"
  ELSE cmp_from(a, b, i + 1)

\* a three-way comparison that orders the shorter byte_vec first
vec_cmp_shortlex(a, b) ==
  IF Len(a) < Len(b) THEN "less"
  ELSE IF Len(a) > Len(b) THEN "greater"
  ELSE cmp_from(a, b, 1)

\* std::vector operator<=>
vec_cmp(a, b) == cmp_from(a, b, 1)

\* mutable_shared_buffer::operator==(const mutable_shared_buffer& rhs)
m_eq(m, rhs) ==
  /\ ~crashed /\ Live(m_data[m]) /\ Live(m_data[rhs])
  /\ IF m_data[m] = Null \/ m_data[rhs] = Null THEN NullDeref("m_eq", m, rhs)
     ELSE Returned("m_eq", m, rhs, vec_eq(store[m_data[m]], store[m_data[rhs]]))

\* mutable_shared_buffer::operator<=>(const mutable_shared_buffer& rhs)
m_cmp(m, rhs) ==
  /\ ~crashed /\ Live(m_data[m]) /\ Live(m_data[rhs])
  /\ IF m_data[m] = Null \/ m_data[rhs] = Null THEN NullDeref("m_cmp", m, rhs)
     ELSE Returned("m_cmp", m, rhs, vec_cmp(store[m_data[m]], store[m_data[rhs]]))

\* const_shared_buffer::operator==(const const_shared_buffer& rhs)
c_eq(c, rhs) ==
  /\ ~crashed /\ Live(c_data[c]) /\ Live(c_data[rhs])
  /\ IF c_data[c] = Null \/ c_data[rhs] = Null THEN NullDeref("c_eq", c, rhs)
     ELSE Returned("c_eq", c, rhs, vec_eq(store[c_data[c]], store[c_data[rhs]]))

\* const_shared_buffer::operator<=>(const const_shared_buffer& rhs)
c_cmp(c, rhs) ==
  /\ ~crashed /\ Live(c_data[c]) /\ Live(c_data[rhs])
  /\ IF c_data[c] = Null \/ c_data[rhs] = Null THEN NullDeref("c_cmp", c, rhs)
     ELSE Returned("c_cmp", c, rhs, vec_cmp(store[c_data[c]], store[c_data[rhs]]))

\* operator==(const const_shared_buffer& lhs, const mutable_shared_buffer& rhs)
cm_eq(c, m) ==
  /\ ~crashed /\ Live(c_data[c]) /\ Live(m_data[m])
  /\ IF c_data[c] = Null \/ m_data[m] = Null THEN NullDeref("cm_eq", c, m)
     ELSE Returned("cm_eq", c, m, vec_eq(store[c_data[c]], store[m_data[m]]))

\* operator==(const mutable_shared_buffer& lhs, const const_shared_buffer& rhs)
mc_eq(m, c) ==
  /\ ~crashed /\ Live(m_data[m]) /\ Live(c_data[c])
  /\ IF m_data[m] = Null \/ c_data[c] = Null THEN NullDeref("mc_eq", m, c)
     ELSE Returned("mc_eq", m, c, vec_eq(store[m_data[m]], store[c_data[c]]))

\* ---- the comparison tests ------------------------------------------------------
\* The left operand is object 1 of the type inp.L and the right operand is
\* object 2 of the type inp.R ("m": mutable_shared_buffer, "c":
\* const_shared_buffer). They are constructed from the arrays inp.X and
\* inp.Y, or, when inp.shared, they are made to refer to one block.
InitCompare ==
  /\ m_data = [m \in 1..NumTest |-> Dead]
  /\ c_data = [c \in 1..NumTest |-> Dead]
  /\ store = [b \in Blocks |-> <<>>]
  /\ use_count = [b \in Blocks |-> 0]
  /\ crashed = FALSE
  /\ last = Call("none", NoObj, NoObj, <<>>, NoObj)
  /\ pc = 1
  /\ inp \in {r \in [L : {"m", "c"}, R : {"m", "c"}, X : ByteSeqs,
                    Y : ByteSeqs, shared : BOOLEAN] : r.shared => r.Y = r.X}
  /\ result = <<>>
  /\ bv = <<>>
  /\ cursor = 0

\* the operands are of the two types and are to share a block: a mutable
\* buffer is constructed and copied, and the const operand adopts the copy
CrossShared == inp.shared /\ inp.L # inp.R

\* the mutable operand and the mutable object that is not an operand
MutOperand == IF inp.L = "m" THEN 1 ELSE 2
MutSpare == IF inp.L = "m" THEN 2 ELSE 1

\* the const operand
ConstOperand == IF inp.L = "c" THEN 1 ELSE 2

\* the statement that makes the first comparison
ComparePc == IF CrossShared THEN 4 ELSE 3

\* SB sb1(ba1.cbegin(), ba1.cend());
CmpCtorFirst ==
  /\ pc = 1
  /\ IF CrossShared THEN MCtorBytes(MutOperand, inp.X)
     ELSE IF inp.L = "m" THEN MCtorBytes(1, inp.X)
     ELSE CCtorBytes(1, inp.X)

\* SB sb2(ba2.cbegin(), ba2.cend());
CmpCtorSecond ==
  /\ pc = 2 /\ ~inp.shared
  /\ IF inp.R = "m" THEN MCtorBytes(2, inp.Y) ELSE CCtorBytes(2, inp.Y)

\* SB sb2(sb1);
CmpCopy ==
  /\ pc = 2 /\ inp.shared /\ inp.L = inp.R
  /\ IF inp.L = "m" THEN MCopyCtor(2, 1) ELSE CCopyCtor(2, 1)

\* chops::mutable_shared_buffer tmp(msb);
CmpAlias == pc = 2 /\ CrossShared /\ MCopyCtor(MutSpare, MutOperand)

\* chops::const_shared_buffer csb(std::move(tmp));
CmpAdopt == pc = 3 /\ CrossShared /\ CAdopt(ConstOperand, MutSpare)

\* operator== of a buffer l of type tl and a buffer r of type tr
Equals(tl, l, tr, r) ==
  IF tl = "m" /\ tr = "m" THEN m_eq(l, r)
  ELSE IF tl = "c" /\ tr = "c" THEN c_eq(l, r)
  ELSE IF tl = "c" THEN cm_eq(l, r)
  ELSE mc_eq(l, r)

\* sb1 == sb2
CmpEq == pc = ComparePc /\ Equals(inp.L, 1, inp.R, 2)

\* sb2 == sb1
CmpEqRev == pc = ComparePc + 1 /\ Equals(inp.R, 2, inp.L, 1)

\* sb1 <=> sb2, as in sb1 < sb2
CmpOrder ==
  /\ pc = ComparePc + 2 /\ inp.L = inp.R
  /\ IF inp.L = "m" THEN m_cmp(1, 2) ELSE c_cmp(1, 2)

\* sb2 <=> sb1
CmpOrderRev ==
  /\ pc = ComparePc + 3 /\ inp.L = inp.R
  /\ IF inp.L = "m" THEN m_cmp(2, 1) ELSE c_cmp(2, 1)

NextCompare ==
  \/ CmpCtorFirst
  \/ CmpCtorSecond
  \/ CmpCopy
  \/ CmpAlias
  \/ CmpAdopt
  \/ CmpEq
  \/ CmpEqRev
  \/ CmpOrder
  \/ CmpOrderRev

SpecCompare == InitCompare /\ [][NextCompare]_vars

\* the handle of an operand of the comparison tests
LhsData == IF inp.L = "m" THEN m_data[1] ELSE c_data[1]
RhsData == IF inp.R = "m" THEN m_data[2] ELSE c_data[2]

\* ---- construction from a byte_vec that is moved in -----------------------------
\* a constructor that copies the bytes of bv and leaves bv as it is
MCtorVec_copies(m) ==
  /\ ~crashed /\ m_data[m] = Dead /\ HasFree
  /\ m_data' = [m_data EXCEPT ![m] = Fresh]
  /\ store' = [store EXCEPT ![Fresh] = bv]
  /\ use_count' = [use_count EXCEPT ![Fresh] = 1]
  /\ Made("m_vec", m, NoObj, bv, NoObj)
  /\ UNCHANGED <<c_data, crashed, result, bv, cursor>>

\* mutable_shared_buffer(byte_vec&& bv) : make_shared<byte_vec>(0), then
\* *m_data = std::move(bv). The move assignment of a std::vector with
\* std::allocator takes over the elements of bv and leaves bv without any.
MCtorVec(m) ==
  /\ ~crashed /\ m_data[m] = Dead /\ HasFree
  /\ m_data' = [m_data EXCEPT ![m] = Fresh]
  /\ store' = [store EXCEPT ![Fresh] = bv]
  /\ bv' = <<>>
  /\ use_count' = [use_count EXCEPT ![Fresh] = 1]
  /\ Made("m_vec", m, NoObj, bv, NoObj)
  /\ UNCHANGED <<c_data, crashed, result, cursor>>

\* const_shared_buffer(byte_vec&& bv) : make_shared<byte_vec>(), then
\* *m_data = std::move(bv)
CCtorVec(c) ==
  /\ ~crashed /\ c_data[c] = Dead /\ HasFree
  /\ c_data' = [c_data EXCEPT ![c] = Fresh]
  /\ store' = [store EXCEPT ![Fresh] = bv]
  /\ bv' = <<>>
  /\ use_count' = [use_count EXCEPT ![Fresh] = 1]
  /\ Made("c_vec", c, NoObj, bv, NoObj)
  /\ UNCHANGED <<m_data, crashed, result, cursor>>

\* ---- byte_vector_move_test ---------------------------------------------------------
\* sb is object 1 and the buffer it is compared with is object 2, both of the
\* type inp.SB; the test's array is inp.arr
InitMove ==
  /\ m_data = [m \in 1..NumTest |-> Dead]
  /\ c_data = [c \in 1..NumTest |-> Dead]
  /\ store = [b \in Blocks |-> <<>>]
  /\ use_count = [b \in Blocks |-> 0]
  /\ crashed = FALSE
  /\ last = Call("none", NoObj, NoObj, <<>>, NoObj)
  /\ pc = 1
  /\ inp \in [SB : {"m", "c"}, arr : ByteSeqs]
  /\ result = <<>>
  /\ bv = <<>>
  /\ cursor = 0

\* the handle of sb and of the buffer it is compared with
SbData == IF inp.SB = "m" THEN m_data[1] ELSE c_data[1]
TmpData == IF inp.SB = "m" THEN m_data[2] ELSE c_data[2]

\* std::vector<std::byte> bv { arr.cbegin(), arr.cend() };
MoveBvCtor ==
  /\ pc = 1
  /\ bv' = inp.arr
  /\ Made("bv", NoObj, NoObj, inp.arr, NoObj)
  /\ UNCHANGED <<m_data, c_data, store, use_count, crashed, result, cursor>>

\* SB sb(std::move(bv));
MoveSbCtor == pc = 2 /\ IF inp.SB = "m" THEN MCtorVec(1) ELSE CCtorVec(1)

\* SB(arr.cbegin(), arr.cend())
MoveTmpCtor ==
  /\ pc = 3
  /\ IF inp.SB = "m" THEN MCtorBytes(2, inp.arr) ELSE CCtorBytes(2, inp.arr)

\* sb == SB(arr.cbegin(), arr.cend())
MoveEq == pc = 4 /\ IF inp.SB = "m" THEN m_eq(1, 2) ELSE c_eq(1, 2)

\* bv.size() == sb.size()
MoveSizeEq ==
  /\ pc = 5
  /\ Returned("size_eq", 1, NoObj, Len(bv) = size(SbData))

NextMove ==
  \/ MoveBvCtor
  \/ MoveSbCtor
  \/ MoveTmpCtor
  \/ MoveEq
  \/ MoveSizeEq

SpecMove == InitMove /\ [][NextMove]_vars

\* ---- the byte codec (serialize/extract_append.hpp) ------------------------------
\* An unsigned integer of w bytes is held as its w base-256 digits, the most
\* significant first. The host's byte order is inp.native.
Widths == {2, 4, 8}

Reverse(s) == [i \in 1..Len(s) |-> s[Len(s) + 1 - i]]

\* the conversion of the integer v to an unsigned integer of w bytes
RECURSIVE ToDigits(_, _)
ToDigits(v, w) ==
  IF w = 0 THEN <<>> ELSE Append(ToDigits(v \div 256, w - 1), v % 256)

\* the integer an unsigned integer of up to three bytes stands for
RECURSIVE ToInt(_)
ToInt(d) ==
  IF d = <<>> THEN 0
  ELSE 256 * ToInt(SubSeq(d, 1, Len(d) - 1)) + d[Len(d)]

\* the byte order an order parameter stands for on the host
Resolve(order) == IF order = "native" THEN inp.native ELSE order

\* a serialisation that takes every byte order for big-endian
Serialize_big(order, d) == d

\* the bytes of d in the byte order: big-endian is the most significant byte
\* first, little-endian the least significant byte first
Serialize(order, d) == IF Resolve(order) = "big" THEN d ELSE Reverse(d)

\* the unsigned integer that the bytes b hold in the byte order
Deserialize(order, b) == IF Resolve(order) = "big" THEN b ELSE Reverse(b)

\* auto sz = chops::append_val<order, T>(x, d); x += sz;
\* the caller guarantees sizeof(T) bytes at x
append_val(m, order, d) ==
  /\ ~crashed /\ m_data[m] \in Blocks
  /\ cursor + Len(d) <= size(m_data[m])
  /\ store' = [store EXCEPT ![m_data[m]] = std_copy(@, Serialize(order, d), cursor)]
  /\ cursor' = cursor + Len(d)
  /\ Made("append_val", m, Len(d), d, NoObj)
  /\ UNCHANGED <<m_data, c_data, use_count, crashed, result, bv>>

\* chops::extract_val<order, T>(x), with sizeof(T) = w; x += sizeof(T);
extract_val(m, order, w) ==
  /\ ~crashed /\ m_data[m] \in Blocks
  /\ cursor + w <= size(m_data[m])
  /\ result' = Append(result,
                 Deserialize(order, SubSeq(store[m_data[m]], cursor + 1, cursor + w)))
  /\ cursor' = cursor + w
  /\ Made("extract_val", m, w, <<>>, NoObj)
  /\ UNCHANGED <<m_data, c_data, store, use_count, crashed, bv>>

\* x = buf.data() + at;
seek(m, at) ==
  /\ ~crashed /\ m_data[m] \in Blocks
  /\ cursor' = at
  /\ Made("data", m, at, <<>>, NoObj)
  /\ UNCHANGED <<m_data, c_data, store, use_count, crashed, result, bv>>

\* ---- a write and a read of one value --------------------------------------------
\* inp.val is written in the byte order inp.order at the offset inp.at of a
\* zero-filled buffer that has one more byte behind the value, and read at
\* the same offset
InitCodec ==
  /\ m_data = [m \in 1..NumTest |-> Dead]
  /\ c_data = <<>>
  /\ store = [b \in Blocks |-> <<>>]
  /\ use_count = [b \in Blocks |-> 0]
  /\ crashed = FALSE
  /\ last = Call("none", NoObj, NoObj, <<>>, NoObj)
  /\ pc = 1
  /\ inp \in [native : {"big", "little"},
              order : {"big", "little", "native"},
              val : UNION {SeqsOfLen(w) : w \in Widths},
              at : 0..MaxAt]
  /\ result = <<>>
  /\ bv = <<>>
  /\ cursor = 0

\* chops::mutable_shared_buffer buf(at + sizeof(T) + 1);
CodecCtor == pc = 1 /\ MCtorSized(1, inp.at + Len(inp.val) + 1)

\* auto x = buf.data() + at;
CodecSeek == pc \in {2, 4} /\ seek(1, inp.at)

\* x += chops::append_val<order, T>(x, val);
CodecWrite == pc = 3 /\ append_val(1, inp.order, inp.val)

\* chops::extract_val<order, T>(x); x += sizeof(T);
CodecRead == pc = 5 /\ extract_val(1, inp.order, Len(inp.val))

NextCodec ==
  \/ CodecCtor
  \/ CodecSeek
  \/ CodecWrite
  \/ CodecRead

SpecCodec == InitCodec /\ [][NextCodec]_vars

\* ---- the example program (shared_buffer_example.cpp, main) ----------------------
\* buf1 is object 1 and buf2 is object 2; the host's byte order is inp.native
\* "A cat in the hat."
str1 ==
  <<65, 32, 99, 97, 116, 32, 105, 110, 32, 116, 104, 101, 32, 104, 97, 116, 46>>

\* "Green eggs and ham."
str ==
  <<71, 114, 101, 101, 110, 32, 101, 103, 103, 115, 32, 97, 110, 100, 32,
    104, 97, 109, 46>>

\* the characters of a C string, the terminating nul included
c_str(s) == s \o <<0>>

\* std::strlen
strlen(s) == Len(s)

NUM_INTS == 15

\* sizeof(std::uint16_t)
SizeofUint16 == 2

InitExample ==
  /\ m_data = [m \in 1..NumTest |-> Dead]
  /\ c_data = <<>>
  /\ store = [b \in Blocks |-> <<>>]
  /\ use_count = [b \in Blocks |-> 0]
  /\ crashed = FALSE
  /\ last = Call("none", NoObj, NoObj, <<>>, NoObj)
  /\ pc = 1
  /\ inp \in [native : {"big", "little"}]
  /\ result = <<>>
  /\ bv = <<>>
  /\ cursor = 0

\* the statements: buf1.clear(), the first statement before the loop that
\* writes, before the loop that reads, and buf2.swap(buf1)
ClearPc == strlen(str1) + 3
WritePc == ClearPc + 3
ReadPc == WritePc + NUM_INTS + 1
SwapPc == ReadPc + NUM_INTS + 1

\* chops::mutable_shared_buffer buf1;
ExBuf1Ctor == pc = 1 /\ MDefaultCtor(1)

\* for (int i : std::views::iota(0u, std::strlen(strptr) + 1))
\*   buf1.append(static_cast<std::byte> (*strptr++));
ExAppendChar ==
  /\ pc - 2 \in 0..strlen(str1)
  /\ append_byte(1, c_str(str1)[pc - 1])

\* buf1.clear();
ExClear == pc = ClearPc /\ clear(1)

\* buf1.append(str.c_str(), str.size() + 1);
ExAppendStr == pc = ClearPc + 1 /\ append(1, SubSeq(c_str(str), 1, Len(str) + 1))

\* chops::mutable_shared_buffer buf2(NUM_INTS * sizeof(std::uint16_t));
ExBuf2Ctor == pc = ClearPc + 2 /\ MCtorSized(2, NUM_INTS * SizeofUint16)

\* auto x = buf2.data(); and, before the loop that reads, x = buf2.data();
ExSeek == pc \in {WritePc, ReadPc} /\ seek(2, 0)

\* for (int i : std::views::iota(0, NUM_INTS)), with count = i + 1:
\*   auto sz = chops::append_val<std::endian::big, std::uint16_t>(x, count++ * 5);
\*   x += sz;
ExWrite ==
  /\ pc - (WritePc + 1) \in 0..(NUM_INTS - 1)
  /\ append_val(2, "big", ToDigits((pc - WritePc) * 5, SizeofUint16))

\* for (int i : std::views::iota(0, NUM_INTS))
\*   std::cout << chops::extract_val<std::endian::native, std::uint16_t>(x); x += 2;
ExRead ==
  /\ pc - (ReadPc + 1) \in 0..(NUM_INTS - 1)
  /\ extract_val(2, "native", 2)

\* buf2.swap(buf1);
ExSwap == pc = SwapPc /\ swap(2, 1)

\* x = buf1.data();
ExSeekSwapped == pc = SwapPc + 1 /\ seek(1, 0)

\* for (int i : std::views::iota(0, NUM_INTS))
\*   std::cout << chops::extract_val<std::endian::native, std::uint16_t>(x); x += 2;
ExReadSwapped ==
  /\ pc - (SwapPc + 2) \in 0..(NUM_INTS - 1)
  /\ extract_val(1, "native", 2)

NextExample ==
  \/ ExBuf1Ctor
  \/ ExAppendChar
  \/ ExClear
  \/ ExAppendStr
  \/ ExBuf2Ctor
  \/ ExSeek
  \/ ExWrite
  \/ ExRead
  \/ ExSwap
  \/ ExSeekSwapped
  \/ ExReadSwapped

SpecExample == InitExample /\ [][NextExample]_vars

\* ---- claims ----------------------------------------------------------------
\* the calls that modify a mutable_shared_buffer or what it refers to
MutatorOps ==
  {"clear", "resize", "write", "append", "append_byte", "append_buffer",
   "append_buffer_stale", "swap", "m_copy_assign", "m_move_assign"}

\* C1: every live buffer object, mutable or const, refers to a storage block:
\* its m_data is never an empty shared_ptr, the source of a move included.
C1_AlwaysRefersToStorage ==
  /\ \A m \in MutIds : Live(m_data[m]) => m_data[m] \in Blocks
  /\ \A c \in ConstIds : Live(c_data[c]) => c_data[c] \in Blocks

\* C2: no call that modifies a mutable buffer changes the size or the bytes
\* seen through a const buffer that lives before and after the call.
C2_ConstContentNeverChanges ==
  [][ last'.op \in MutatorOps =>
        \A c \in ConstIds :
          (c_data[c] \in Blocks /\ c_data'[c] \in Blocks) =>
             store'[c_data'[c]] = store[c_data[c]] ]_vars

\* C6: a const buffer that lives before and after a step refers to the same
\* block after it: no call redirects or removes its handle.
C6_ConstHandleIsFixed ==
  [][ \A c \in ConstIds :
        (Live(c_data[c]) /\ Live(c_data'[c])) => c_data'[c] = c_data[c] ]_vars

\* the call ended the sharing of a and b that a copy set up: one of them was
\* assigned to, swapped, adopted into a const buffer, or destroyed
EndsSharing(call, a, b) ==
  \/ call.op \in {"m_copy_assign", "m_move_assign", "m_dtor"} /\ call.obj \in {a, b}
  \/ call.op = "swap" /\ {call.obj, call.arg} \cap {a, b} # {}
  \/ call.op = "c_adopt" /\ call.arg \in {a, b}

\* C3: two mutable buffers that a copy made share one block keep sharing it,
\* and so report the same size and bytes, across every call that does not
\* assign to, swap or adopt one of them.
C3_CopiesKeepSharing ==
  [][ \A a, b \in MutIds :
        ( /\ a # b
          /\ m_data[a] \in Blocks
          /\ m_data[a] = m_data[b]
          /\ ~EndsSharing(last', a, b) ) =>
            /\ m_data'[a] \in Blocks
            /\ m_data'[a] = m_data'[b] ]_vars

\* C4: adopting a mutable buffer that holds content into a const buffer gives
\* the const buffer exactly that content, and leaves the mutable buffer with
\* size() == 0 and empty() true.
C4_AdoptTakesContent ==
  [][ (last'.op = "c_adopt" /\ m_data[last'.arg] \in Blocks) =>
        /\ c_data'[last'.obj] \in Blocks
        /\ store'[c_data'[last'.obj]] = store[m_data[last'.arg]]
        /\ m_data'[last'.arg] \in Blocks
        /\ Len(store'[m_data'[last'.arg]]) = 0
        /\ store'[m_data'[last'.arg]] = <<>> ]_vars

\* a buffer with content was adopted
C4_Witness ==
  /\ last.op = "c_adopt"
  /\ c_data[last.obj] \in Blocks
  /\ Len(store[c_data[last.obj]]) = MaxLen
  /\ \E i \in 1..MaxLen : store[c_data[last.obj]][i] # 0
  /\ m_data[last.arg] \in Blocks
  /\ m_data[last.arg] # c_data[last.obj]

\* no mutable buffer, with m_data as in md, refers to block h
Unshared(md, h) == \A m \in DOMAIN md : md[m] # h

\* C5: copy construction of a const buffer from a mutable buffer gives it the
\* mutable buffer's bytes in a block of its own and leaves the mutable buffer
\* as it was; a const buffer whose block no mutable buffer refers to keeps its
\* size and bytes, and its block to itself, across every call.
C5_CopyIsIndependent ==
  [][ /\ (last'.op = "c_from_mutable" /\ ~crashed') =>
           /\ c_data'[last'.obj] \in Blocks
           /\ store'[c_data'[last'.obj]] = store[m_data[last'.arg]]
           /\ m_data' = m_data
           /\ store'[m_data[last'.arg]] = store[m_data[last'.arg]]
           /\ Unshared(m_data', c_data'[last'.obj])
      /\ \A c \in ConstIds :
           ( /\ c_data[c] \in Blocks
             /\ Unshared(m_data, c_data[c])
             /\ c_data'[c] \in Blocks ) =>
               /\ store'[c_data'[c]] = store[c_data[c]]
               /\ Unshared(m_data', c_data'[c]) ]_vars

\* a const buffer was copied from a mutable buffer with content
C5_Witness ==
  /\ last.op = "c_from_mutable" /\ ~crashed
  /\ store[c_data[last.obj]] = store[m_data[last.arg]]
  /\ Len(store[c_data[last.obj]]) = MaxLen
  /\ \E i \in 1..MaxLen : store[c_data[last.obj]][i] # 0

\* the bytes an append call was given: the caller's array, or the content of
\* the buffer argument before the call
Appended(call) ==
  IF call.op = "append_buffer" THEN store[m_data[call.arg]] ELSE call.bytes

\* C7: append of bytes X (an array, a single byte, or a buffer with storage
\* of its own) to a buffer with content C makes the content C followed by X:
\* the size grows by Len(X), the first Len(C) bytes stay, X is at the end in
\* order, and the call returns the buffer it was made on.
C7_AppendConcatenates ==
  [][ ( /\ last'.op \in {"append", "append_byte", "append_buffer"}
        /\ ~crashed'
        /\ (last'.op = "append_buffer" =>
              m_data[last'.obj] # m_data[last'.arg]) ) =>
        LET h == m_data[last'.obj]
            C == store[h]
            X == Appended(last')
            R == store'[h]
        IN /\ m_data' = m_data
           /\ Len(R) = Len(C) + Len(X)
           /\ \A i \in 1..Len(C) : R[i] = C[i]
           /\ \A i \in 1..Len(X) : R[Len(C) + i] = X[i]
           /\ R = C \o X
           /\ last'.ret = last'.obj ]_vars

\* bytes were appended to a buffer that had content
C7_Witness ==
  /\ last.op = "append"
  /\ Len(last.bytes) = 2
  /\ last.bytes[1] # last.bytes[2]
  /\ Len(store[m_data[last.obj]]) = MaxLen
  /\ store[m_data[last.obj]][1] = 1

\* C9: swap exchanges the two handles and copies no bytes: each buffer then
\* reports the size and bytes the other reported before, and no block's
\* content changes.
C9_SwapExchangesHandles ==
  [][ last'.op = "swap" =>
        LET a == last'.obj
            b == last'.arg
        IN /\ m_data'[a] = m_data[b]
           /\ m_data'[b] = m_data[a]
           /\ \A m \in MutIds \ {a, b} : m_data'[m] = m_data[m]
           /\ store' = store
           /\ (m_data[a] \in Blocks /\ m_data[b] \in Blocks) =>
                /\ store'[m_data'[a]] = store[m_data[b]]
                /\ store'[m_data'[b]] = store[m_data[a]] ]_vars

\* two buffers with different content were swapped
C9_Witness ==
  /\ last.op = "swap"
  /\ m_data[last.obj] \in Blocks /\ m_data[last.arg] \in Blocks
  /\ Len(store[m_data[last.obj]]) = 1
  /\ Len(store[m_data[last.arg]]) = MaxLen

\* C10: a second swap of the same two buffers, made right after a swap,
\* gives both their handles, sizes and bytes from before the first swap;
\* this holds too when they share storage or are one object.
C10_SwapTwiceRestores ==
  [][ last'.op = "swap" =>
        /\ swap_handles(m_data', last'.obj, last'.arg) = m_data
        /\ swap_handles(m_data', last'.arg, last'.obj) = m_data
        /\ store' = store ]_vars

\* two buffers that share storage were swapped
C10_Witness ==
  /\ last.op = "swap"
  /\ last.obj # last.arg
  /\ m_data[last.obj] \in Blocks
  /\ m_data[last.obj] = m_data[last.arg]
  /\ store[m_data[last.obj]] # <<>>

\* C8: on an empty buffer, append(X) then append(Y) gives a buffer equal to
\* one constructed from X followed by Y, and appending the bytes of X one at
\* a time gives a buffer equal to one constructed from X.
C8_AppendsEqualDirect ==
  TestDone =>
    /\ m_data[1] \in Blocks /\ m_data[2] \in Blocks
    /\ buf_eq(m_data[1], m_data[2])
    /\ store[m_data[1]] = inp.X \o inp.Y

\* the test ran with two arrays that are not empty
C8_Witness ==
  /\ TestDone
  /\ inp.kind = "twice"
  /\ Len(inp.X) = 1 /\ Len(inp.Y) = 2
  /\ inp.Y[1] # inp.Y[2]
  /\ Len(store[m_data[1]]) = 3

\* C11: for two buffers of either type (mutable/mutable, const/const,
\* mutable/const, const/mutable) operator== returns true if and only if they
\* have the same size and the same bytes in order, whether or not they share
\* a block; lhs == rhs and rhs == lhs return the same.
C11_EqualIffSameBytes ==
  pc >= ComparePc + 2 =>
    LET a == store[LhsData]
        b == store[RhsData]
    IN /\ result[1] = (a = b)
       /\ result[1] = (Len(a) = Len(b) /\ \A i \in 1..Len(a) : a[i] = b[i])
       /\ result[1] = (inp.X = (IF inp.shared THEN inp.X ELSE inp.Y))
       /\ inp.shared => result[1]
       /\ result[2] = result[1]

\* a mutable and a const buffer that hold a common prefix and differ in size
\* were compared both ways
C11_Witness ==
  /\ pc = ComparePc + 2
  /\ inp.L = "m" /\ inp.R = "c" /\ ~inp.shared
  /\ inp.X = <<1, 0>> /\ inp.Y = <<1, 0, 1>>
  /\ result = <<FALSE, FALSE>>

\* byte sequence a orders before b in the lexicographic order: at the first
\* index where they differ a holds the smaller byte, or a ends there
LexLess(a, b) ==
  \E k \in 1..Len(b) :
    /\ k <= Len(a) + 1
    /\ \A i \in 1..(k - 1) : a[i] = b[i]
    /\ (k = Len(a) + 1 \/ a[k] < b[k])

\* C12: the ordering of two buffers of one type is the lexicographic order
\* of their bytes, a proper prefix before the longer sequence, and it is a
\* total order that agrees with equality: exactly one of a < b, a == b and
\* b < a holds.
C12_OrderIsLexicographic ==
  (pc = ComparePc + 4 /\ inp.L = inp.R) =>
    LET a == store[LhsData]
        b == store[RhsData]
        a_lt_b == result[3] = "less"
        b_lt_a == result[4] = "less"
        a_eq_b == result[1]
    IN /\ a_lt_b = LexLess(a, b)
       /\ b_lt_a = LexLess(b, a)
       /\ (a_lt_b \/ a_eq_b \/ b_lt_a)
       /\ ~(a_lt_b /\ a_eq_b) /\ ~(a_lt_b /\ b_lt_a) /\ ~(a_eq_b /\ b_lt_a)
       /\ (result[3] = "greater") = b_lt_a
       /\ (result[3] = "equal") = a_eq_b
       /\ \A z \in ByteSeqs :
            (a_lt_b /\ vec_cmp(b, z) = "less") => vec_cmp(a, z) = "less"

\* a buffer was compared with a shorter one that holds a larger first byte
C12_Witness ==
  /\ pc = ComparePc + 4
  /\ inp.L = "c" /\ inp.R = "c"
  /\ inp.X = <<0, 1, 1>> /\ inp.Y = <<1>>
  /\ result = <<FALSE, FALSE, "less", "greater">>

\* C13: resize(n) on a mutable buffer of size s makes the size n for the
\* buffer and for every buffer that shares its block; the bytes at the
\* indices below min(s, n) keep their values, and when n > s the bytes at
\* the indices s..n-1 are zero. No other block changes, so bytes cut off by
\* a shrink come back as zero, and retained bytes as they were, on a later
\* grow.
C13_ResizeKeepsPrefixZeroFills ==
  [][ (last'.op = "resize" /\ ~crashed') =>
        LET h == m_data[last'.obj]
            s == Len(store[h])
            n == last'.arg
        IN /\ m_data' = m_data /\ c_data' = c_data
           /\ \A m \in MutIds :
                m_data[m] = h => Len(store'[m_data'[m]]) = n
           /\ \A c \in ConstIds :
                c_data[c] = h => Len(store'[c_data'[c]]) = n
           /\ \A i \in 1..(IF s < n THEN s ELSE n) : store'[h][i] = store[h][i]
           /\ \A i \in (s + 1)..n : store'[h][i] = 0
           /\ \A b \in Blocks \ {h} : store'[b] = store[b] ]_vars

\* a buffer that shares its block with another one was resized to MaxLen and
\* holds a byte that is not zero followed by zeros
C13_Witness ==
  /\ last.op = "resize" /\ ~crashed
  /\ last.arg = MaxLen
  /\ \E m \in MutIds \ {last.obj} : m_data[m] = m_data[last.obj]
  /\ store[m_data[last.obj]][1] = 1
  /\ \A i \in 2..MaxLen : store[m_data[last.obj]][i] = 0

C15_CtorCopiesBytes ==
  /\ (pc >= 2 /\ ~CrossShared) =>
       /\ LhsData \in Blocks
       /\ size(LhsData) = Len(inp.X)
       /\ empty(LhsData) = (Len(inp.X) = 0)
       /\ \A i \in 1..Len(inp.X) : store[LhsData][i] = inp.X[i]
  /\ (pc >= 3 /\ ~inp.shared) =>
       /\ RhsData \in Blocks /\ RhsData # LhsData
       /\ size(RhsData) = Len(inp.Y)
       /\ empty(RhsData) = (Len(inp.Y) = 0)
       /\ \A i \in 1..Len(inp.Y) : store[RhsData][i] = inp.Y[i]
  /\ (pc >= ComparePc + 2 /\ ~inp.shared /\ inp.X = inp.Y) =>
       /\ result[1] = TRUE
       /\ result[2] = TRUE

\* a mutable and a const buffer were constructed from the same three bytes
\* and compared
C15_Witness ==
  /\ pc = ComparePc + 2
  /\ inp.L = "m" /\ inp.R = "c" /\ ~inp.shared
  /\ inp.X = <<1, 0, 1>> /\ inp.Y = inp.X
  /\ size(m_data[1]) = 3 /\ size(c_data[2]) = 3
  /\ m_data[1] # c_data[2]
  /\ result = <<TRUE, TRUE>>

\* C16 as claimed: a buffer constructed from a byte_vec V that is moved in
\* has the size and the bytes V had, and after the construction the size of
\* V differs from the size of the buffer.
C16_VectorSizeDiffers ==
  pc >= 3 =>
    /\ SbData \in Blocks
    /\ size(SbData) = Len(inp.arr)
    /\ store[SbData] = inp.arr
    /\ Len(bv) # size(SbData)

\* C16 as amended: a buffer constructed from a byte_vec V that is moved in
\* has the size and the bytes V had, and V is empty after the construction;
\* the size of V then differs from the size of the buffer exactly when V
\* held at least one byte.
C16_VectorMovedIn ==
  /\ pc >= 3 =>
       /\ SbData \in Blocks
       /\ size(SbData) = Len(inp.arr)
       /\ \A i \in 1..Len(inp.arr) : store[SbData][i] = inp.arr[i]
       /\ bv = <<>>
       /\ (Len(bv) # size(SbData)) = (Len(inp.arr) > 0)
  /\ pc >= 5 => result[1] = TRUE
  /\ pc >= 6 => result[2] = (Len(inp.arr) = 0)

\* a byte_vec of three bytes was moved into a const buffer and the test made
\* its two comparisons
C16_Witness ==
  /\ pc = 6
  /\ inp.SB = "c" /\ inp.arr = <<1, 1, 0>>
  /\ store[c_data[1]] = <<1, 1, 0>>
  /\ bv = <<>>
  /\ result = <<TRUE, FALSE>>

\* C18: for an unsigned integer of 16, 32 or 64 bits, any value of it and
\* any byte order (big, little, native), a write at a cursor followed by a
\* read in the same order at the same cursor returns the value; the write
\* reports sizeof(value) bytes, changes exactly those bytes, and both leave
\* the cursor sizeof(value) bytes further.
C18_CodecRoundTrip ==
  LET w == Len(inp.val)
  IN /\ pc >= 4 =>
          /\ last.op = "append_val" => (last.arg = w /\ cursor = inp.at + w)
          /\ \A i \in 1..(inp.at + w + 1) :
               (i <= inp.at \/ i > inp.at + w) => store[m_data[1]][i] = 0
          /\ inp.order = "big" =>
               \A i \in 1..w : store[m_data[1]][inp.at + i] = inp.val[i]
          /\ inp.order = "little" =>
               \A i \in 1..w : store[m_data[1]][inp.at + i] = inp.val[w + 1 - i]
     /\ pc = 6 =>
          /\ result = <<inp.val>>
          /\ cursor = inp.at + w

\* a 64-bit value whose bytes are not a palindrome was written and read in
\* little-endian order on a big-endian host, one byte into the buffer
C18_Witness ==
  /\ pc = 6
  /\ inp.native = "big" /\ inp.order = "little" /\ inp.at = 1
  /\ inp.val = <<1, 0, 0, 0, 0, 0, 1, 1>>
  /\ store[m_data[1]] = <<0, 1, 1, 0, 0, 0, 0, 0, 1, 0>>
  /\ result = <<inp.val>>

\* C17 as claimed: after the bytes of "A cat in the hat." and a terminating
\* zero byte were appended one at a time to the empty buffer, size() is 19
\* and the buffer holds the string followed by a zero byte.
C17_CatSizeIs19 ==
  pc = ClearPc =>
    /\ size(m_data[1]) = 19
    /\ \A i \in 1..strlen(str1) : store[m_data[1]][i] = str1[i]
    /\ store[m_data[1]][strlen(str1) + 1] = 0

\* C17 as amended: the string has 17 characters, and after its bytes and a
\* terminating zero byte were appended one at a time to the empty buffer,
\* size() is 18 and the buffer holds the string followed by a zero byte.
C17_CatSizeIs18 ==
  pc = ClearPc =>
    /\ strlen(str1) = 17
    /\ size(m_data[1]) = 18
    /\ \A i \in 1..17 : store[m_data[1]][i] = str1[i]
    /\ store[m_data[1]][18] = 0

\* the loop has appended its last byte, the nul, to "A cat in the hat"
C17_Witness ==
  /\ pc = ClearPc
  /\ last.op = "append_byte" /\ last.bytes = <<0>>
  /\ store[m_data[1]][1] = 65
  /\ store[m_data[1]][17] = 46

\* C19: the values 5, 10, ..., 75 written as big-endian 16-bit integers one
\* after the other into the zero-filled buffer of 30 bytes, and read back
\* slot by slot as native-endian 16-bit integers, come out as written, in
\* order, whatever the byte order of the host.
C19_NativeReadReproduces ==
  pc = SwapPc =>
    /\ size(m_data[2]) = 30
    /\ Len(result) = NUM_INTS
    /\ \A i \in 1..NUM_INTS : ToInt(result[i]) = 5 * i

\* the calls that change the bytes of the buffer they are made on
GrowShrinkOps ==
  {"clear", "resize", "append", "append_byte", "append_buffer",
   "append_buffer_stale"}

\* C20: adopting a mutable buffer that refers to a block makes the const
\* buffer refer to exactly that block: no block is allocated for it, no byte
\* is copied and the block gets no further owner. The source then refers to
\* a block that was not allocated before, is empty and has no other owner.
\* While a mutable buffer is the only owner of its block, clear, resize and
\* append on it leave it the only owner and change no const buffer.
C20_AdoptIsZeroCopy ==
  [][ /\ (last'.op = "c_adopt" /\ m_data[last'.arg] \in Blocks) =>
           LET h == m_data[last'.arg]
               f == m_data'[last'.arg]
           IN /\ c_data'[last'.obj] = h
              /\ f \in Blocks \ {h}
              /\ use_count[f] = 0 /\ use_count'[f] = 1
              /\ store'[f] = <<>>
              /\ \A m \in MutIds \ {last'.arg} : m_data'[m] # f
              /\ \A c \in ConstIds : c_data'[c] # f
              /\ \A b \in Blocks \ {f} :
                   /\ use_count'[b] = use_count[b]
                   /\ store'[b] = store[b]
      /\ ( /\ last'.op \in GrowShrinkOps /\ ~crashed'
           /\ use_count[m_data[last'.obj]] = 1 ) =>
           /\ m_data'[last'.obj] = m_data[last'.obj]
           /\ use_count'[m_data'[last'.obj]] = 1
           /\ \A c \in ConstIds :
                c_data[c] \in Blocks =>
                  /\ c_data'[c] = c_data[c]
                  /\ store'[c_data'[c]] = store[c_data[c]] ]_vars

\* a buffer of MaxLen bytes was adopted: the const buffer is the only owner
\* of the block and the source is the only owner of an empty one
C20_Witness ==
  /\ last.op = "c_adopt"
  /\ c_data[last.obj] \in Blocks
  /\ use_count[c_data[last.obj]] = 1
  /\ store[c_data[last.obj]] = [i \in 1..MaxLen |-> 1]
  /\ m_data[last.arg] \in Blocks \ {c_data[last.obj]}
  /\ use_count[m_data[last.arg]] = 1
  /\ store[m_data[last.arg]] = <<>>

\* the live buffer objects, mutable and const, that refer to block b when
\* the m_data fields are md and cd
Referrers(md, cd, b) ==
  Cardinality({m \in DOMAIN md : md[m] = b})
    + Cardinality({c \in DOMAIN cd : cd[c] = b})

\* the calls that destroy a buffer or redirect it to other storage
DropOps == {"m_dtor", "c_dtor", "m_copy_assign", "m_move_assign"}

\* C21: the lifetime of a block is exactly reference-counted. At all times,
\* over every construction, copy, assignment, swap, adoption and
\* destruction, each block has as many owners as live buffer objects refer to it: a block that a
\* live buffer refers to is allocated and keeps its byte_vec, a block that
\* no buffer refers to is released, and a block is released only by the call
\* that destroys or redirects its last referrer.
C21_ExactlyRefCounted ==
  /\ [](\A b \in Blocks :
          /\ use_count[b] = Referrers(m_data, c_data, b)
          /\ (\E m \in MutIds : m_data[m] = b) => use_count[b] > 0
          /\ (\E c \in ConstIds : c_data[c] = b) => use_count[b] > 0
          /\ use_count[b] = 0 => store[b] = <<>>)
  /\ [][ \A b \in Blocks :
           /\ (use_count[b] > 0 /\ use_count'[b] = 0) =>
                /\ last'.op \in DropOps
                /\ Referrers(m_data, c_data, b) = 1
           /\ (use_count[b] > 0 /\ use_count'[b] > 0
                 /\ last'.op \in DropOps \cup {"m_copy", "c_copy", "m_move",
                                               "c_move", "swap", "c_adopt"}) =>
                store'[b] = store[b] ]_vars

\* a block with content has a mutable and two const referrers, and the
\* destruction of a buffer has just released the other block
C21_Witness ==
  /\ last.op = "m_dtor"
  /\ \E b \in Blocks :
       /\ use_count[b] = 3
       /\ \E m \in MutIds : m_data[m] = b
       /\ \E c \in ConstIds : c_data[c] = b
       /\ store[b] # <<>>
       /\ \A o \in Blocks \ {b} : use_count[o] = 0

\* C22: append(rhs), where rhs is the target itself or a buffer that shares
\* the target's block, gives the content the target had followed by a copy
\* of it, as the append of a buffer with a block of its own does, and the
\* bytes of rhs are never read through a pointer that the resize of the
\* shared byte_vec has invalidated.
C22_SelfAppendDoubles ==
  [][ ( /\ last'.op \in {"append_buffer", "append_buffer_stale"}
        /\ ~crashed'
        /\ m_data[last'.obj] = m_data[last'.arg] ) =>
        LET h == m_data[last'.obj]
        IN /\ last'.op # "append_buffer_stale"
           /\ Len(store'[h]) = 2 * Len(store[h])
           /\ store'[h] = store[h] \o store[h] ]_vars
====
